---- MODULE Spec2Model ----
(***************************************************************************)
(* Model of the MT3620 ultrasonic parking-bay monitor (src/main.c).        *)
(*                                                                         *)
(* The program is single threaded: main() runs InitPeripheralsAndHandlers, *)
(* then a loop (wait on epoll and dispatch the timer handler, set the      *)
(* network LED, retry the IoT hub connection, run the periodic tasks,      *)
(* sleep), then ClosePeripheralsAndHandlers.  Two things happen            *)
(* asynchronously to it: the SIGTERM handler and the IoT hub's             *)
(* connection-status callback.                                             *)
(*                                                                         *)
(* Distances are kept in hundredths of a centimetre, so that 8.01 cm is    *)
(* the integer 801.  Times are struct timespec records; the monotonic      *)
(* clock is observed only where the code calls clock_gettime, and each     *)
(* observation returns some value not smaller than the previous one.       *)
(***************************************************************************)
EXTENDS Integers, Sequences, FiniteSets

\* ------------------------------------------------------------------ bounds

\* Free distance samples per run (longer runs follow EndToEndScript only).
MaxSamples == 2
\* Largest value of the monotonic clock, in timer periods (half seconds).
MaxClock == 4

\* --------------------------------------------------------------- constants

\* static int epollFd = -1;  static int usTimerFd = -1;
FdInvalid == -1
\* struct timespec usCheckPeriod = { 0, 500000000 };
usCheckPeriodNsec == 500000000
\* a->tv_nsec += 1e9;
NsecPerSec == 1000000000
\* const struct timespec iothub_retry_period = { 1, 0 };
iothub_retry_period == [tv_sec |-> 1, tv_nsec |-> 0]

\* LedBlinkUtility_Colors used by main.c
LedBlinkUtility_Colors == {"Off", "Red", "Green", "Yellow"}

\* The descriptors CreateEpollFd and CreateTimerFdAndAddToEpoll hand out: the
\* first two free ones after stdin, stdout and stderr.
EpollFdValue == 2 + 1
TimerFdValue == 2 + 2

\* Distances GetUltrasonicReading can return, in 1/100 cm: the unavailable
\* sentinel -1, 2.0, 8.0, 8.01 and the no-echo sentinel 400.
Distances == {0 - 100, 2 * 100, 8 * 100, 8 * 100 + 1, 400 * 100}

\* The scripted samples 10, 10, 5, 5, 1, 10 cm.
EndToEndScript == <<10 * 100, 10 * 100, 5 * 100, 5 * 100, 1 * 100, 10 * 100>>

VARIABLES
    pc,                    \* position of main()
    terminationRequired,   \* static volatile sig_atomic_t terminationRequired
    epollFd,               \* static int epollFd
    usTimerFd,             \* static int usTimerFd
    openFds,               \* descriptors currently open
    ledsOpen,              \* the three RGB LEDs hold their GPIOs
    ledTraffic,            \* colour shown by ledTraffic
    ledNetworkStatus,      \* colour shown by ledNetworkStatus
    connectedToIoTHub,     \* static bool connectedToIoTHub
    callbackRegistered,    \* AzureIoT_SetConnectionStatusCallback was called
    clientCreated,         \* the IoT hub client exists (a setup succeeded)
    occupiedState,         \* static bool occupiedState
    iothub_connected,      \* main's local iothub_connected
    next_iothub_connect,   \* main's local next_iothub_connect
    now,                   \* main's local now
    clock,                 \* CLOCK_MONOTONIC as last observed, in half seconds
    \* ---- observations of what the program did (never read by the program)
    samples,               \* distances returned by GetUltrasonicReading
    reports,               \* values passed to AzureIoT_TwinReportState
    trafficLog,            \* colours passed to SetLed(&ledTraffic) by the handler
    droppedCount,          \* occupancy changes that met "not connected"
    alwaysConnected,       \* connectedToIoTHub was true at every sample so far
    trafficSetFailed,      \* a SetLed(&ledTraffic) in the handler failed
    lastChangeDropped,     \* the latest occupancy change met "not connected"
    quietAfterDrop,        \* since then a sample taken while connected found
                           \* no change
    loopEntered,           \* the loop body has started at least once
    lastAttemptTime,       \* clock value read right after the last setup attempt
    periodicCalls,         \* AzureIoT_DoPeriodicTasks calls in this iteration
    connSinceIterStart,    \* connectedToIoTHub held since this iteration began
    closeLog,              \* calls made by ClosePeripheralsAndHandlers
    closeSetOk,            \* the SetLed(Off) of shutdown succeeded
    consumeFailed,         \* the wait that has just returned ran the handler
                           \* and its ConsumeTimerFdEvent failed
    firstIteration,        \* main is in the first iteration of its loop
    networkSetFailed,      \* the last SetLed(&ledNetworkStatus) failed
    \* ---- the functions that are followed statement by statement
    sensor,                \* the activation of GetUltrasonicReading
    arith                  \* the operands and results of the timespec helpers

progVars == <<pc, terminationRequired, epollFd, usTimerFd, openFds, ledsOpen,
              ledTraffic, ledNetworkStatus, connectedToIoTHub,
              callbackRegistered, clientCreated, occupiedState,
              iothub_connected, next_iothub_connect, now, clock>>
progVarsButPc == <<terminationRequired, epollFd, usTimerFd, openFds, ledsOpen,
                   ledTraffic, ledNetworkStatus, connectedToIoTHub,
                   callbackRegistered, clientCreated, occupiedState,
                   iothub_connected, next_iothub_connect, now, clock>>
progVarsButPcFlag == <<epollFd, usTimerFd, openFds, ledsOpen, ledTraffic,
                       ledNetworkStatus, connectedToIoTHub,
                       callbackRegistered, clientCreated, occupiedState,
                       iothub_connected, next_iothub_connect, now, clock>>
obsVars == <<samples, reports, trafficLog, droppedCount, alwaysConnected,
             trafficSetFailed, lastChangeDropped, quietAfterDrop,
             loopEntered, lastAttemptTime, periodicCalls,
             connSinceIterStart, closeLog, closeSetOk>>
flowVars == <<consumeFailed, firstIteration, networkSetFailed>>
vars == <<progVars, obsVars, flowVars, sensor, arith>>

\* ------------------------------------------------------------ time helpers

\* A clock value in half seconds as a struct timespec.
TS(h) == [tv_sec |-> h \div 2, tv_nsec |-> (h % 2) * usCheckPeriodNsec]

\* timer_utility: a + b, carrying a whole second.
TimerUtility_TimerAdd(a, b) ==
    LET sec == a.tv_sec + b.tv_sec
        nsec == a.tv_nsec + b.tv_nsec
    IN  IF nsec >= NsecPerSec
        THEN [tv_sec |-> sec + 1, tv_nsec |-> nsec - NsecPerSec]
        ELSE [tv_sec |-> sec, tv_nsec |-> nsec]

\* s - t without the borrow.
TimerUtility_TimerSubtract_NoBorrow(s, t) ==
    [tv_sec |-> s.tv_sec - t.tv_sec, tv_nsec |-> s.tv_nsec - t.tv_nsec]

\* a = s - t, borrowing a second when the nanoseconds go negative.
TimerUtility_TimerSubtract(s, t) ==
    LET sec == s.tv_sec - t.tv_sec
        nsec == s.tv_nsec - t.tv_nsec
    IN  IF nsec < 0
        THEN [tv_sec |-> sec - 1, tv_nsec |-> nsec + NsecPerSec]
        ELSE [tv_sec |-> sec, tv_nsec |-> nsec]

\* timer_utility: a > b.
TimerUtility_TimerCompareGreater(a, b) ==
    \/ a.tv_sec > b.tv_sec
    \/ a.tv_sec = b.tv_sec /\ a.tv_nsec > b.tv_nsec

\* Values clock_gettime(CLOCK_MONOTONIC) can return now.
ClockReadings == clock .. MaxClock

NoTime == [tv_sec |-> 0 - 1, tv_nsec |-> 0]

\* ------------------------------------------------------------- LED helpers

\* LedBlinkUtility_SetLed: the colour an LED shows after a call that
\* succeeded (ok) or failed.
LedBlinkUtility_SetLed(led, color, ok) == IF ok THEN color ELSE led

\* A SetLed call can succeed only while the LEDs are open.
SetLedResults == IF ledsOpen THEN BOOLEAN ELSE {FALSE}

\* ----------------------------------------------------------- initial state

ZeroTime == [tv_sec |-> 0, tv_nsec |-> 0]

\* GetUltrasonicReading is not running: no handle, no local.  Besides the
\* locals (fd, i, triggered, tsStart, tsEnd) the record keeps what the call
\* did: the handles it holds, the reads and clock stamps it made, the level
\* last read, whether a high level was read, whether a low level followed a
\* high one, whether an open failed, and the value returned.
SensorIdle == [pc |-> "idle", fd |-> FdInvalid, open |-> {}, i |-> 0,
               triggered |-> FALSE, tsStart |-> ZeroTime, tsEnd |-> ZeroTime,
               reads |-> 0, startStamps |-> 0, endStamps |-> 0,
               lastLevel |-> "none", sawHigh |-> FALSE,
               fallingEdge |-> FALSE, openFailed |-> FALSE, result |-> 0]

\* No timespec helper has been called.
ArithIdle == [pc |-> "idle", s |-> ZeroTime, t |-> ZeroTime, a |-> ZeroTime,
              sum |-> ZeroTime]

MainInit ==
    /\ pc = "start"
    /\ terminationRequired = FALSE
    /\ epollFd = FdInvalid
    /\ usTimerFd = FdInvalid
    /\ openFds = {}
    /\ ledsOpen = FALSE
    /\ ledTraffic = "Off"
    /\ ledNetworkStatus = "Off"
    /\ connectedToIoTHub = FALSE
    /\ callbackRegistered = FALSE
    /\ clientCreated = FALSE
    /\ occupiedState = FALSE
    /\ iothub_connected = FALSE
    /\ clock = 0
    /\ next_iothub_connect = TS(0)
    /\ now = TS(0)
    /\ samples = <<>>
    /\ reports = <<>>
    /\ trafficLog = <<>>
    /\ droppedCount = 0
    /\ alwaysConnected = TRUE
    /\ trafficSetFailed = FALSE
    /\ lastChangeDropped = FALSE
    /\ quietAfterDrop = FALSE
    /\ loopEntered = FALSE
    /\ lastAttemptTime = NoTime
    /\ periodicCalls = 0
    /\ connSinceIterStart = FALSE
    /\ closeLog = <<>>
    /\ closeSetOk = FALSE
    /\ consumeFailed = FALSE
    /\ firstIteration = FALSE
    /\ networkSetFailed = FALSE

Init ==
    /\ MainInit
    /\ sensor = SensorIdle
    /\ arith = ArithIdle

\* --------------------------------------------------- asynchronous handlers

InLoop == pc \in {"loop_test", "wait", "netled", "connect", "attempt",
                  "periodic", "sleep"}

\* A SIGTERM handler that flips the flag instead of setting it.
TerminationHandler_Toggles ==
    /\ InLoop
    /\ terminationRequired' = ~terminationRequired
    /\ UNCHANGED <<pc, progVarsButPcFlag, obsVars, flowVars, sensor, arith>>

\* The SIGTERM handler, installed by InitPeripheralsAndHandlers.  Once main
\* has left the loop the flag is not read again, and a signal changes
\* nothing the program does.
TerminationHandler ==
    /\ InLoop
    /\ terminationRequired' = TRUE
    /\ UNCHANGED <<flowVars, sensor, arith>>
    /\ UNCHANGED <<pc, epollFd, usTimerFd, openFds, ledsOpen, ledTraffic,
                   ledNetworkStatus, connectedToIoTHub, callbackRegistered,
                   clientCreated, occupiedState, iothub_connected,
                   next_iothub_connect, now, clock, obsVars>>

\* The connection-status callback: the hub client delivers it at any time
\* once the callback is registered and a client exists.
IoTHubConnectionStatusChanged ==
    /\ InLoop
    /\ callbackRegistered
    /\ clientCreated
    /\ \E connected \in BOOLEAN :
        /\ connectedToIoTHub' = connected
        /\ connSinceIterStart' = (connSinceIterStart /\ connected)
    /\ UNCHANGED <<flowVars, sensor, arith>>
    /\ UNCHANGED <<pc, terminationRequired, epollFd, usTimerFd, openFds,
                   ledsOpen, ledTraffic, ledNetworkStatus, callbackRegistered,
                   clientCreated, occupiedState, iothub_connected,
                   next_iothub_connect, now, clock, samples, reports,
                   trafficLog, droppedCount, alwaysConnected,
                   trafficSetFailed, lastChangeDropped, quietAfterDrop,
                   loopEntered, lastAttemptTime,
                   periodicCalls, closeLog, closeSetOk>>

\* ------------------------------------------------------------------ set-up

\* InitPeripheralsAndHandlers without the "return -1" after a failed
\* AzureIoT_Initialize.
InitPeripheralsAndHandlersResult_AzureIgnored(epollOk, azureOk, timerOk) ==
    IF ~epollOk THEN 0 - 1 ELSE 0

\* The value InitPeripheralsAndHandlers returns, given which of its
\* constructions succeeded.  The result of CreateTimerFdAndAddToEpoll is
\* stored in usTimerFd and not looked at.
InitPeripheralsAndHandlersResult(epollOk, azureOk, timerOk) ==
    IF ~epollOk THEN 0 - 1
    ELSE IF ~azureOk THEN 0 - 1
    ELSE 0

\* main with the first attempt due only a retry period after the start.
MainStart_DeadlineAfterPeriod ==
    /\ pc = "start"
    /\ \E ledsOk \in BOOLEAN, epollOk \in BOOLEAN, azureOk \in BOOLEAN,
          timerOk \in BOOLEAN :
        LET reachedAzure == epollOk
            reachedTimer == epollOk /\ azureOk
        IN
        /\ ledsOpen' = ledsOk
        /\ epollFd' = IF epollOk THEN EpollFdValue ELSE FdInvalid
        /\ callbackRegistered' = reachedTimer
        /\ usTimerFd' = IF reachedTimer /\ timerOk THEN TimerFdValue
                        ELSE FdInvalid
        /\ openFds' = (IF epollOk THEN {EpollFdValue} ELSE {})
                       \cup (IF reachedTimer /\ timerOk THEN {TimerFdValue}
                             ELSE {})
        /\ terminationRequired' =
               IF InitPeripheralsAndHandlersResult(epollOk, azureOk, timerOk) # 0
               THEN TRUE ELSE terminationRequired
        /\ next_iothub_connect' =
               TimerUtility_TimerAdd(TS(clock), iothub_retry_period)
    /\ iothub_connected' = FALSE
    /\ pc' = "loop_test"
    /\ UNCHANGED <<flowVars, sensor, arith>>
    /\ UNCHANGED <<ledTraffic, ledNetworkStatus, connectedToIoTHub,
                   clientCreated, occupiedState, now, clock, obsVars>>

\* main up to the loop: InitPeripheralsAndHandlers, the termination flag on
\* failure, the first clock reading (the time at which the program starts,
\* which is the origin of the model's clock).
MainStart ==
    /\ pc = "start"
    /\ \E ledsOk \in BOOLEAN, epollOk \in BOOLEAN, azureOk \in BOOLEAN,
          timerOk \in BOOLEAN :
        LET reachedAzure == epollOk
            reachedTimer == epollOk /\ azureOk
        IN
        /\ ledsOpen' = ledsOk
        /\ epollFd' = IF epollOk THEN EpollFdValue ELSE FdInvalid
        /\ callbackRegistered' = reachedTimer
        /\ usTimerFd' = IF reachedTimer /\ timerOk THEN TimerFdValue
                        ELSE FdInvalid
        /\ openFds' = (IF epollOk THEN {EpollFdValue} ELSE {})
                       \cup (IF reachedTimer /\ timerOk THEN {TimerFdValue}
                             ELSE {})
        /\ terminationRequired' =
               IF InitPeripheralsAndHandlersResult(epollOk, azureOk, timerOk) # 0
               THEN TRUE ELSE terminationRequired
        /\ next_iothub_connect' = TS(clock)
    /\ iothub_connected' = FALSE
    /\ pc' = "loop_test"
    /\ UNCHANGED <<flowVars, sensor, arith>>
    /\ UNCHANGED <<ledTraffic, ledNetworkStatus, connectedToIoTHub,
                   clientCreated, occupiedState, now, clock, obsVars>>

\* What the set-up did, read back from the state it leaves.
EpollCreateFailed == pc # "start" /\ epollFd = FdInvalid
AzureInitFailed == pc # "start" /\ epollFd # FdInvalid /\ ~callbackRegistered
TimerCreateFailed == pc # "start" /\ callbackRegistered /\ usTimerFd = FdInvalid

\* ------------------------------------------------------- the timer handler

NearThresholdCm == 8
OccupiedThresholdCm == 2

\* A negative reading taken as "nothing measured", hence not occupied.
Occupied_NonNegative(cms) == cms >= 0 /\ ~(cms > NearThresholdCm * 100)

\* The occupancy the handler passes to ReportStatusToIotHub for a distance.
Occupied(cms) == ~(cms > NearThresholdCm * 100)

\* The thresholds compared with >= instead of >.
TrafficColor_Inclusive(cms) ==
    IF cms >= NearThresholdCm * 100 THEN "Green"
    ELSE IF cms >= OccupiedThresholdCm * 100 THEN "Yellow"
    ELSE "Red"

\* The colour the handler passes to SetLed(&ledTraffic) for a distance.
TrafficColor(cms) ==
    IF cms > NearThresholdCm * 100 THEN "Green"
    ELSE IF cms > OccupiedThresholdCm * 100 THEN "Yellow"
    ELSE "Red"

\* The value given to AzureIoT_TwinReportState.
TwinValue(occupied) == IF occupied THEN 1 ELSE 0

\* ReportStatusToIotHub without "occupiedState = occupied".
ReportStatusToIotHub_NoStore(occupied) ==
    IF occupiedState # occupied
    THEN /\ occupiedState' = occupiedState
         /\ IF connectedToIoTHub
            THEN /\ reports' = Append(reports, TwinValue(occupied))
                 /\ droppedCount' = droppedCount
            ELSE /\ reports' = reports
                 /\ droppedCount' = droppedCount + 1
    ELSE UNCHANGED <<occupiedState, reports, droppedCount>>

\* ReportStatusToIotHub without the comparison with occupiedState.
ReportStatusToIotHub_Always(occupied) ==
    /\ occupiedState' = occupied
    /\ IF connectedToIoTHub
       THEN /\ reports' = Append(reports, TwinValue(occupied))
            /\ droppedCount' = droppedCount
       ELSE /\ reports' = reports
            /\ droppedCount' = droppedCount + 1

\* ReportStatusToIotHub storing the new value only when it was sent.
ReportStatusToIotHub_StoreWhenSent(occupied) ==
    IF occupiedState # occupied
    THEN IF connectedToIoTHub
         THEN /\ occupiedState' = occupied
              /\ reports' = Append(reports, TwinValue(occupied))
              /\ droppedCount' = droppedCount
         ELSE /\ occupiedState' = occupiedState
              /\ reports' = reports
              /\ droppedCount' = droppedCount + 1
    ELSE UNCHANGED <<occupiedState, reports, droppedCount>>

ReportStatusToIotHub(occupied) ==
    IF occupiedState # occupied
    THEN /\ occupiedState' = occupied
         /\ IF connectedToIoTHub
            THEN /\ reports' = Append(reports, TwinValue(occupied))
                 /\ droppedCount' = droppedCount
            ELSE /\ reports' = reports
                 /\ droppedCount' = droppedCount + 1
    ELSE UNCHANGED <<occupiedState, reports, droppedCount>>

\* Distances the sensor may return at this point of the run: any of
\* Distances for the first MaxSamples samples, and the next scripted sample
\* while the run follows EndToEndScript.
NextReadings ==
    (IF Len(samples) < MaxSamples THEN Distances ELSE {})
    \cup (IF /\ Len(samples) < Len(EndToEndScript)
             /\ samples = SubSeq(EndToEndScript, 1, Len(samples))
          THEN {EndToEndScript[Len(samples) + 1]} ELSE {})

\* The handler measuring before it looks at the result of
\* ConsumeTimerFdEvent.
UltrasonicTimerEventHandler_MeasureFirst(consumeOk, cms, ledOk) ==
    /\ samples' = Append(samples, cms)
    /\ alwaysConnected' = (alwaysConnected /\ connectedToIoTHub)
    /\ ReportStatusToIotHub(Occupied(cms))
    /\ ledTraffic' = LedBlinkUtility_SetLed(ledTraffic, TrafficColor(cms), ledOk)
    /\ trafficLog' = Append(trafficLog, TrafficColor(cms))
    /\ trafficSetFailed' = (trafficSetFailed \/ ~ledOk)
    /\ UNCHANGED <<lastChangeDropped, quietAfterDrop>>
    /\ consumeFailed' = ~consumeOk
    /\ terminationRequired' = (terminationRequired \/ ~consumeOk)

\* static void UltrasonicTimerEventHandler(EventData *eventData)
UltrasonicTimerEventHandler(consumeOk, cms, ledOk) ==
    IF ~consumeOk
    THEN /\ terminationRequired' = TRUE
         /\ consumeFailed' = TRUE
         /\ UNCHANGED <<occupiedState, reports, droppedCount, ledTraffic,
                        samples, trafficLog, alwaysConnected,
                        trafficSetFailed, lastChangeDropped, quietAfterDrop>>
    ELSE /\ samples' = Append(samples, cms)
         /\ alwaysConnected' = (alwaysConnected /\ connectedToIoTHub)
         /\ ReportStatusToIotHub(Occupied(cms))
         /\ ledTraffic' = LedBlinkUtility_SetLed(ledTraffic, TrafficColor(cms),
                                                 ledOk)
         /\ trafficLog' = Append(trafficLog, TrafficColor(cms))
         /\ trafficSetFailed' = (trafficSetFailed \/ ~ledOk)
         /\ lastChangeDropped' = IF Occupied(cms) # occupiedState
                                 THEN ~connectedToIoTHub
                                 ELSE lastChangeDropped
         /\ quietAfterDrop' = IF Occupied(cms) # occupiedState THEN FALSE
                              ELSE \/ quietAfterDrop
                                   \/ lastChangeDropped /\ connectedToIoTHub
         /\ consumeFailed' = FALSE
         /\ UNCHANGED terminationRequired

\* ---------------------------------------------------------------- the loop

\* while (!terminationRequired)
MainLoopTest ==
    /\ pc = "loop_test"
    /\ IF terminationRequired
       THEN /\ pc' = "close_off"
            /\ firstIteration' = FALSE
            /\ UNCHANGED <<loopEntered, periodicCalls, connSinceIterStart>>
       ELSE /\ pc' = "wait"
            /\ loopEntered' = TRUE
            /\ firstIteration' = ~loopEntered
            /\ periodicCalls' = 0
            /\ connSinceIterStart' = connectedToIoTHub
    /\ UNCHANGED <<consumeFailed, networkSetFailed, sensor, arith>>
    /\ UNCHANGED <<progVarsButPc, samples, reports, trafficLog, droppedCount,
                   alwaysConnected, trafficSetFailed, lastChangeDropped,
                   quietAfterDrop, lastAttemptTime,
                   closeLog, closeSetOk>>

\* WaitForEventAndCallHandler returned after dispatching the timer event:
\* the handler ran (consuming the event may have failed).
MainWaitTimerEvent ==
    /\ pc = "wait"
    /\ usTimerFd # FdInvalid
    /\ \E consumeOk \in BOOLEAN, ledOk \in SetLedResults :
        \/ /\ ~consumeOk
           /\ UltrasonicTimerEventHandler(FALSE, 0, ledOk)
        \/ /\ consumeOk
           /\ \E cms \in NextReadings :
                UltrasonicTimerEventHandler(TRUE, cms, ledOk)
    /\ pc' = "netled"
    /\ UNCHANGED <<firstIteration, networkSetFailed, sensor, arith>>
    /\ UNCHANGED <<epollFd, usTimerFd, openFds, ledsOpen, ledNetworkStatus,
                   connectedToIoTHub, callbackRegistered, clientCreated,
                   iothub_connected, next_iothub_connect, now, clock,
                   loopEntered, lastAttemptTime, periodicCalls,
                   connSinceIterStart, closeLog, closeSetOk>>

\* WaitForEventAndCallHandler returned 0 without an event (the wait was
\* interrupted by a signal).
MainWaitInterrupted ==
    /\ pc = "wait"
    /\ pc' = "netled"
    /\ UNCHANGED <<flowVars, sensor, arith>>
    /\ UNCHANGED <<progVarsButPc, obsVars>>

\* A failed wait leaving the loop at once.
MainWaitFailed_Exits ==
    /\ pc = "wait"
    /\ terminationRequired' = TRUE
    /\ pc' = "close_off"
    /\ UNCHANGED <<progVarsButPcFlag, obsVars, flowVars, sensor, arith>>

\* WaitForEventAndCallHandler failed.
MainWaitFailed ==
    /\ pc = "wait"
    /\ terminationRequired' = TRUE
    /\ pc' = "netled"
    /\ UNCHANGED <<flowVars, sensor, arith>>
    /\ UNCHANGED <<epollFd, usTimerFd, openFds, ledsOpen, ledTraffic,
                   ledNetworkStatus, connectedToIoTHub, callbackRegistered,
                   clientCreated, occupiedState, iothub_connected,
                   next_iothub_connect, now, clock, obsVars>>

\* The colour of the network status LED for a connectivity state.
NetworkColor(connected) == IF connected THEN "Green" ELSE "Off"

\* The network LED switched on when connected and never switched off.
MainSetNetworkLed_OnlyWhenConnected(ok) ==
    /\ pc = "netled"
    /\ ok \in SetLedResults
    /\ ledNetworkStatus' =
           IF connectedToIoTHub
           THEN LedBlinkUtility_SetLed(ledNetworkStatus, "Green", ok)
           ELSE ledNetworkStatus
    /\ pc' = IF ok THEN "connect" ELSE "close_off"
    /\ networkSetFailed' = ~ok
    /\ consumeFailed' = FALSE
    /\ UNCHANGED <<firstIteration, sensor, arith>>
    /\ UNCHANGED <<terminationRequired, epollFd, usTimerFd, openFds, ledsOpen,
                   ledTraffic, connectedToIoTHub, callbackRegistered,
                   clientCreated, occupiedState, iothub_connected,
                   next_iothub_connect, now, clock, obsVars>>

\* Set network status LED color; a failure leaves the loop.
MainSetNetworkLed(ok) ==
    /\ pc = "netled"
    /\ ok \in SetLedResults
    /\ ledNetworkStatus' =
           LedBlinkUtility_SetLed(ledNetworkStatus,
                                  NetworkColor(connectedToIoTHub), ok)
    /\ pc' = IF ok THEN "connect" ELSE "close_off"
    /\ networkSetFailed' = ~ok
    /\ consumeFailed' = FALSE
    /\ UNCHANGED <<firstIteration, sensor, arith>>
    /\ UNCHANGED <<terminationRequired, epollFd, usTimerFd, openFds, ledsOpen,
                   ledTraffic, connectedToIoTHub, callbackRegistered,
                   clientCreated, occupiedState, iothub_connected,
                   next_iothub_connect, now, clock, obsVars>>

MainNetworkLedSet == MainSetNetworkLed(TRUE)

MainNetworkLedFailed == MainSetNetworkLed(FALSE)

\* What AzureIoT_SetupClient can return: main relies on a call made when
\* the client is already set up having no effect, so it reports the client
\* as set up; otherwise the set-up succeeds or fails.
AzureIoT_SetupClientResults == IF clientCreated THEN {TRUE} ELSE BOOLEAN

\* The connection attempted in every iteration, whatever the deadline.
MainConnectCheck_NoBackoff ==
    /\ pc = "connect"
    /\ \E t \in ClockReadings :
        /\ clock' = t
        /\ now' = TS(t)
    /\ pc' = "attempt"
    /\ UNCHANGED <<flowVars, sensor, arith>>
    /\ UNCHANGED <<terminationRequired, epollFd, usTimerFd, openFds, ledsOpen,
                   ledTraffic, ledNetworkStatus, connectedToIoTHub,
                   callbackRegistered, clientCreated, occupiedState,
                   iothub_connected, next_iothub_connect, obsVars>>

\* clock_gettime(&now); if (TimerUtility_TimerCompareGreater(&now, &next_...))
MainConnectCheck ==
    /\ pc = "connect"
    /\ \E t \in ClockReadings :
        /\ clock' = t
        /\ now' = TS(t)
        /\ pc' = IF TimerUtility_TimerCompareGreater(TS(t), next_iothub_connect)
                 THEN "attempt" ELSE "periodic"
    /\ UNCHANGED <<flowVars, sensor, arith>>
    /\ UNCHANGED <<terminationRequired, epollFd, usTimerFd, openFds, ledsOpen,
                   ledTraffic, ledNetworkStatus, connectedToIoTHub,
                   callbackRegistered, clientCreated, occupiedState,
                   iothub_connected, next_iothub_connect, obsVars>>

\* iothub_connected = AzureIoT_SetupClient(); clock_gettime(&now);
\* TimerUtility_TimerAdd(&now, &iothub_retry_period, &next_iothub_connect);
MainConnectAttempt ==
    /\ pc = "attempt"
    /\ \E result \in AzureIoT_SetupClientResults, t \in ClockReadings :
        /\ iothub_connected' = result
        /\ clientCreated' = (clientCreated \/ result)
        /\ clock' = t
        /\ now' = TS(t)
        /\ next_iothub_connect' = TimerUtility_TimerAdd(TS(t), iothub_retry_period)
        /\ lastAttemptTime' = TS(t)
    /\ pc' = "periodic"
    /\ UNCHANGED <<flowVars, sensor, arith>>
    /\ UNCHANGED <<terminationRequired, epollFd, usTimerFd, openFds, ledsOpen,
                   ledTraffic, ledNetworkStatus, connectedToIoTHub,
                   callbackRegistered, occupiedState, samples, reports,
                   trafficLog, droppedCount, alwaysConnected,
                   trafficSetFailed, lastChangeDropped, quietAfterDrop,
                   loopEntered, periodicCalls,
                   connSinceIterStart, closeLog, closeSetOk>>

\* The periodic tasks never run.
MainPeriodicTasks_Skipped ==
    /\ pc = "periodic"
    /\ pc' = "sleep"
    /\ UNCHANGED <<flowVars, sensor, arith>>
    /\ UNCHANGED <<progVarsButPc, obsVars>>

\* if (iothub_connected) AzureIoT_DoPeriodicTasks();
MainPeriodicTasks ==
    /\ pc = "periodic"
    /\ periodicCalls' = IF iothub_connected THEN periodicCalls + 1
                        ELSE periodicCalls
    /\ pc' = "sleep"
    /\ UNCHANGED <<flowVars, sensor, arith>>
    /\ UNCHANGED <<progVarsButPc, samples, reports, trafficLog, droppedCount,
                   alwaysConnected, trafficSetFailed, lastChangeDropped,
                   quietAfterDrop, loopEntered,
                   lastAttemptTime, connSinceIterStart, closeLog, closeSetOk>>

\* nanosleep(&timespec_1ms, NULL);
MainSleep ==
    /\ pc = "sleep"
    /\ pc' = "loop_test"
    /\ UNCHANGED <<flowVars, sensor, arith>>
    /\ UNCHANGED <<progVarsButPc, obsVars>>

\* ---------------------------------------------------------------- shutdown

\* Shutdown without switching the traffic LED off.
CloseTrafficOff_Skipped ==
    /\ pc = "close_off"
    /\ pc' = "close_leds"
    /\ UNCHANGED <<flowVars, sensor, arith>>
    /\ UNCHANGED <<progVarsButPc, obsVars>>

\* LedBlinkUtility_SetLed(&ledTraffic, LedBlinkUtility_Colors_Off);
CloseTrafficOff ==
    /\ pc = "close_off"
    /\ \E ok \in SetLedResults :
        /\ ledTraffic' = LedBlinkUtility_SetLed(ledTraffic, "Off", ok)
        /\ closeSetOk' = ok
    /\ closeLog' = Append(closeLog, "SetTrafficOff")
    /\ pc' = "close_leds"
    /\ UNCHANGED <<flowVars, sensor, arith>>
    /\ UNCHANGED <<terminationRequired, epollFd, usTimerFd, openFds, ledsOpen,
                   ledNetworkStatus, connectedToIoTHub, callbackRegistered,
                   clientCreated, occupiedState, iothub_connected,
                   next_iothub_connect, now, clock, samples, reports,
                   trafficLog, droppedCount, alwaysConnected,
                   trafficSetFailed, lastChangeDropped, quietAfterDrop,
                   loopEntered, lastAttemptTime,
                   periodicCalls, connSinceIterStart>>

\* LedBlinkUtility_CloseLeds(rgbLeds, rgbLedsCount);
CloseLeds ==
    /\ pc = "close_leds"
    /\ ledsOpen' = FALSE
    /\ closeLog' = Append(closeLog, "CloseLeds")
    /\ pc' = "close_timer"
    /\ UNCHANGED <<flowVars, sensor, arith>>
    /\ UNCHANGED <<terminationRequired, epollFd, usTimerFd, openFds,
                   ledTraffic, ledNetworkStatus, connectedToIoTHub,
                   callbackRegistered, clientCreated, occupiedState,
                   iothub_connected, next_iothub_connect, now, clock, samples,
                   reports, trafficLog, droppedCount, alwaysConnected,
                   trafficSetFailed, lastChangeDropped, quietAfterDrop,
                   loopEntered, lastAttemptTime,
                   periodicCalls, connSinceIterStart, closeSetOk>>

\* CloseFdAndPrintError(usTimerFd, "USTimer");
CloseTimerFd ==
    /\ pc = "close_timer"
    /\ openFds' = openFds \ {usTimerFd}
    /\ closeLog' = Append(closeLog, "CloseTimerFd")
    /\ pc' = "close_epoll"
    /\ UNCHANGED <<flowVars, sensor, arith>>
    /\ UNCHANGED <<terminationRequired, epollFd, usTimerFd, ledsOpen,
                   ledTraffic, ledNetworkStatus, connectedToIoTHub,
                   callbackRegistered, clientCreated, occupiedState,
                   iothub_connected, next_iothub_connect, now, clock, samples,
                   reports, trafficLog, droppedCount, alwaysConnected,
                   trafficSetFailed, lastChangeDropped, quietAfterDrop,
                   loopEntered, lastAttemptTime,
                   periodicCalls, connSinceIterStart, closeSetOk>>

\* CloseFdAndPrintError(epollFd, "Epoll");
CloseEpollFd ==
    /\ pc = "close_epoll"
    /\ openFds' = openFds \ {epollFd}
    /\ closeLog' = Append(closeLog, "CloseEpollFd")
    /\ pc' = "done"
    /\ UNCHANGED <<flowVars, sensor, arith>>
    /\ UNCHANGED <<terminationRequired, epollFd, usTimerFd, ledsOpen,
                   ledTraffic, ledNetworkStatus, connectedToIoTHub,
                   callbackRegistered, clientCreated, occupiedState,
                   iothub_connected, next_iothub_connect, now, clock, samples,
                   reports, trafficLog, droppedCount, alwaysConnected,
                   trafficSetFailed, lastChangeDropped, quietAfterDrop,
                   loopEntered, lastAttemptTime,
                   periodicCalls, connSinceIterStart, closeSetOk>>

\* ----------------------------------------------------- GetUltrasonicReading

\* for (int i = 0; i < 10000; i++)
PollCeiling == 10000
\* return (elapsed.tv_nsec / 58000.0): nanoseconds of echo per centimetre.
NsecPerCm == 58000
\* "never got a response return max value"
TimeoutCm == 400
\* return -1 when the pin cannot be opened
UnavailableCm == 0 - 1

\* The float the function returns is kept exact as a number of 1/58000 cm,
\* which for a measured pulse is elapsed.tv_nsec itself.
Cm(n) == n * NsecPerCm

\* The descriptor GPIO_OpenAsOutput / GPIO_OpenAsInput hand out.
SensorFdValue == 2 + 3

\* Readings of CLOCK_MONOTONIC at the first high level (the clock runs since
\* boot, so they are not zero), one of them just below a whole second.
StartTimes == {[tv_sec |-> 1, tv_nsec |-> 0],
               [tv_sec |-> 1, tv_nsec |-> 999000000]}

\* Widths of the echo pulse in nanoseconds: none, 1 ns, 2 cm, 8 cm, 400 cm.
PulseWidths == {0, 1, 2 * NsecPerCm, 8 * NsecPerCm, 400 * NsecPerCm}

\* Readings of the clock at the falling edge of a pulse begun at start.
EndTimes(start) ==
    {TimerUtility_TimerAdd(start, [tv_sec |-> 0, tv_nsec |-> w]) :
         w \in PulseWidths}

SensorUnchanged == UNCHANGED <<progVars, obsVars, flowVars, arith>>

\* int fd = GPIO_OpenAsOutput(pin, ...); if (fd < 0) return -1;
SensorOpenOutput(ok) ==
    /\ sensor.pc = "open_out"
    /\ sensor' = IF ok
                 THEN [sensor EXCEPT !.fd = SensorFdValue,
                                     !.open = @ \cup {"output"},
                                     !.pc = "pulse"]
                 ELSE [sensor EXCEPT !.fd = FdInvalid,
                                     !.openFailed = TRUE,
                                     !.result = Cm(UnavailableCm),
                                     !.pc = "returned"]
    /\ SensorUnchanged

SensorOutputOpened == SensorOpenOutput(TRUE)

SensorOutputFailed == SensorOpenOutput(FALSE)

\* The trigger pulse without the close of the output handle.
SensorPulse_NoClose ==
    /\ sensor.pc = "pulse"
    /\ sensor' = [sensor EXCEPT !.pc = "open_in"]
    /\ SensorUnchanged

\* nanosleep(&tsWait, NULL); GPIO_SetValue(fd, GPIO_Value_Low); close(fd);
SensorPulse ==
    /\ sensor.pc = "pulse"
    /\ sensor' = [sensor EXCEPT !.open = @ \ {"output"}, !.pc = "open_in"]
    /\ SensorUnchanged

\* fd = GPIO_OpenAsInput(pin); if (fd < 0) return -1;
\* int result = 0; bool triggered = false;
SensorOpenInput(ok) ==
    /\ sensor.pc = "open_in"
    /\ sensor' = IF ok
                 THEN [sensor EXCEPT !.fd = SensorFdValue,
                                     !.open = @ \cup {"input"},
                                     !.triggered = FALSE,
                                     !.i = 0,
                                     !.pc = "poll"]
                 ELSE [sensor EXCEPT !.fd = FdInvalid,
                                     !.openFailed = TRUE,
                                     !.result = Cm(UnavailableCm),
                                     !.pc = "returned"]
    /\ SensorUnchanged

SensorInputOpened == SensorOpenInput(TRUE)

SensorInputFailed == SensorOpenInput(FALSE)

\* The loop body without the break after the end stamp.
SensorPoll_NoBreak(outVal) ==
    /\ sensor.pc = "poll"
    /\ sensor.i < PollCeiling
    /\ LET read == [sensor EXCEPT !.reads = @ + 1,
                                  !.lastLevel = outVal,
                                  !.sawHigh = @ \/ outVal = "High",
                                  !.i = @ + 1]
       IN
       IF outVal = "High"
       THEN IF ~sensor.triggered
            THEN \E t \in StartTimes :
                    sensor' = [read EXCEPT !.tsStart = t,
                                           !.startStamps = @ + 1,
                                           !.triggered = TRUE]
            ELSE sensor' = read
       ELSE IF sensor.triggered
            THEN \E t \in EndTimes(sensor.tsStart) :
                    sensor' = [read EXCEPT !.tsEnd = t,
                                           !.endStamps = @ + 1,
                                           !.fallingEdge = TRUE]
            ELSE sensor' = read
    /\ SensorUnchanged

\* One pass of the loop body: GPIO_GetValue(fd, &outVal) and the two stamps.
\* The result of GPIO_GetValue is not looked at; a failed read leaves outVal
\* with whatever it held, which is one of the two branches below.
SensorPoll(outVal) ==
    /\ sensor.pc = "poll"
    /\ sensor.i < PollCeiling
    /\ LET read == [sensor EXCEPT !.reads = @ + 1,
                                  !.lastLevel = outVal,
                                  !.sawHigh = @ \/ outVal = "High"]
       IN
       IF outVal = "High"
       THEN IF ~sensor.triggered
            THEN \E t \in StartTimes :
                    sensor' = [read EXCEPT !.tsStart = t,
                                           !.startStamps = @ + 1,
                                           !.triggered = TRUE,
                                           !.i = @ + 1]
            ELSE sensor' = [read EXCEPT !.i = @ + 1]
       ELSE IF sensor.triggered
            THEN \E t \in EndTimes(sensor.tsStart) :
                    sensor' = [read EXCEPT !.tsEnd = t,
                                           !.endStamps = @ + 1,
                                           !.fallingEdge = TRUE,
                                           !.pc = "close"]
            ELSE sensor' = [read EXCEPT !.i = @ + 1]
    /\ SensorUnchanged

SensorPollHigh == SensorPoll("High")

SensorPollLow == SensorPoll("Low")

\* i < 10000 is false: the loop ends without a falling edge.
SensorPollExhausted ==
    /\ sensor.pc = "poll"
    /\ ~(sensor.i < PollCeiling)
    /\ sensor' = [sensor EXCEPT !.pc = "close"]
    /\ SensorUnchanged

\* close(fd);
SensorClose ==
    /\ sensor.pc = "close"
    /\ sensor' = [sensor EXCEPT !.open = @ \ {"input"}, !.pc = "finish"]
    /\ SensorUnchanged

\* The value returned without the test for a missing end stamp.
GetUltrasonicReadingResult_NoTimeout(tsStart, tsEnd) ==
    TimerUtility_TimerSubtract(tsEnd, tsStart).tv_nsec

\* The value returned after the loop, in 1/58000 cm.
GetUltrasonicReadingResult(tsStart, tsEnd) ==
    IF tsEnd.tv_sec = 0 /\ tsEnd.tv_nsec = 0
    THEN Cm(TimeoutCm)
    ELSE TimerUtility_TimerSubtract(tsEnd, tsStart).tv_nsec

\* if (tsEnd is zero) return 400; ... return (elapsed.tv_nsec / 58000.0);
SensorReturn ==
    /\ sensor.pc = "finish"
    /\ sensor' = [sensor EXCEPT
                      !.result = GetUltrasonicReadingResult(sensor.tsStart,
                                                            sensor.tsEnd),
                      !.pc = "returned"]
    /\ SensorUnchanged

\* A call of GetUltrasonicReading on its own.
SensorInit ==
    /\ MainInit
    /\ sensor = [SensorIdle EXCEPT !.pc = "open_out"]
    /\ arith = ArithIdle

SensorNext ==
    \/ SensorOutputOpened
    \/ SensorOutputFailed
    \/ SensorPulse
    \/ SensorInputOpened
    \/ SensorInputFailed
    \/ SensorPollHigh
    \/ SensorPollLow
    \/ SensorPollExhausted
    \/ SensorClose
    \/ SensorReturn

SensorSpec == SensorInit /\ [][SensorNext]_vars

\* ------------------------------------------------------- timespec helpers

\* Whole seconds of the operands tried.
MaxSeconds == 2

\* Nanosecond parts tried: the ends of [0, 1e9) and two values inside.
NsecSamples == {0, 1, usCheckPeriodNsec, NsecPerSec - 1}

\* The normalized timespecs tried as operands.
Timespecs == [tv_sec : 0 .. MaxSeconds, tv_nsec : NsecSamples]

ArithUnchanged == UNCHANGED <<progVars, obsVars, flowVars, sensor>>

\* TimerUtility_TimerSubtract(&s, &t, &a)
ArithSubtract ==
    /\ arith.pc = "args"
    /\ arith' = [arith EXCEPT !.a = TimerUtility_TimerSubtract(arith.s, arith.t),
                              !.pc = "subtracted"]
    /\ ArithUnchanged

\* TimerUtility_TimerAdd(&a, &t, &sum)
ArithAdd ==
    /\ arith.pc = "subtracted"
    /\ arith' = [arith EXCEPT !.sum = TimerUtility_TimerAdd(arith.a, arith.t),
                              !.pc = "added"]
    /\ ArithUnchanged

\* The helpers on their own, for every pair of operands.
ArithInit ==
    /\ MainInit
    /\ sensor = SensorIdle
    /\ \E s \in Timespecs, t \in Timespecs :
           arith = [ArithIdle EXCEPT !.s = s, !.t = t, !.pc = "args"]

ArithNext ==
    \/ ArithSubtract
    \/ ArithAdd

ArithSpec == ArithInit /\ [][ArithNext]_vars

\* ----------------------------------------------------------- specification

Next ==
    \/ TerminationHandler
    \/ IoTHubConnectionStatusChanged
    \/ MainStart
    \/ MainLoopTest
    \/ MainWaitTimerEvent
    \/ MainWaitInterrupted
    \/ MainWaitFailed
    \/ MainNetworkLedSet
    \/ MainNetworkLedFailed
    \/ MainConnectCheck
    \/ MainConnectAttempt
    \/ MainPeriodicTasks
    \/ MainSleep
    \/ CloseTrafficOff
    \/ CloseLeds
    \/ CloseTimerFd
    \/ CloseEpollFd

Spec == Init /\ [][Next]_vars

\* The statements of main, as opposed to the signal handler and the
\* connection-status callback.
MainStep ==
    \/ MainStart
    \/ MainLoopTest
    \/ MainWaitTimerEvent
    \/ MainWaitInterrupted
    \/ MainWaitFailed
    \/ MainNetworkLedSet
    \/ MainNetworkLedFailed
    \/ MainConnectCheck
    \/ MainConnectAttempt
    \/ MainPeriodicTasks
    \/ MainSleep
    \/ CloseTrafficOff
    \/ CloseLeds
    \/ CloseTimerFd
    \/ CloseEpollFd

\* The program with main running on: every call main makes returns (the
\* blocking wait included) and main executes its next statement.
FairSpec == Spec /\ WF_vars(MainStep)

TypeOK ==
    /\ terminationRequired \in BOOLEAN
    /\ ledTraffic \in LedBlinkUtility_Colors
    /\ ledNetworkStatus \in LedBlinkUtility_Colors
    /\ periodicCalls \in 0..1
    /\ Len(samples) <= Len(EndToEndScript)

\* ------------------------------------------------------------------ claims

\* The occupancy of every sample taken so far.
OccupancySeq == [i \in 1..Len(samples) |-> Occupied(samples[i])]

\* Number of places where a sequence changes value.
Transitions(seq) == Cardinality({i \in 1..(Len(seq) - 1) : seq[i] # seq[i + 1]})

\* The occupancy changes of the run, counted from the initial stored value.
OccupancyChanges == Transitions(<<FALSE>> \o OccupancySeq)

\* A step in which the handler processed a sample.
SampleStep == Len(samples') = Len(samples) + 1

\* The occupancy of the sample processed by this step.
SampledOccupancy == Occupied(samples'[Len(samples')])

EndToEndTraffic == <<"Green", "Green", "Yellow", "Yellow", "Red", "Green">>

\* C1 as stated: after the samples 10, 10, 5, 5, 1, 10 with the hub
\* connected at every sample, the reports are false, true, false and the
\* traffic colours Green, Green, Yellow, Yellow, Red, Green.
C1_EndToEndAsStated ==
    (samples = EndToEndScript /\ alwaysConnected)
        => /\ reports = <<0, 1, 0>>
           /\ trafficLog = EndToEndTraffic

\* C1 amended: after the samples 10, 10, 5, 5, 1, 10 with the hub connected
\* at every sample, exactly two reports were made, true then false (the
\* first sample agrees with the initial stored value false and is not
\* reported), and the traffic colours requested are Green, Green, Yellow,
\* Yellow, Red, Green.
C1_EndToEnd ==
    (samples = EndToEndScript /\ alwaysConnected)
        => /\ reports = <<1, 0>>
           /\ trafficLog = EndToEndTraffic

C1_Witness ==
    /\ samples = EndToEndScript
    /\ alwaysConnected
    /\ ~trafficSetFailed
    /\ ledTraffic = "Green"

\* C2 as stated: a sample produces a report if and only if its occupancy
\* differs from the stored occupancy.
C2_ReportIffChangeAsStated ==
    [][SampleStep =>
         ((Len(reports') = Len(reports) + 1)
            <=> (SampledOccupancy # occupiedState))]_vars

\* C2 amended: a sample produces a report if and only if its occupancy
\* differs from the stored occupancy and connectedToIoTHub is true; a change
\* met while not connected produces a warning instead, so the reports and
\* the warnings together number the occupancy changes of the run (counted
\* from the initial stored value false), and the stored value is the latest
\* sample's occupancy.
C2_ReportIffChange ==
    /\ [](/\ Len(reports) + droppedCount = OccupancyChanges
          /\ (samples # <<>> => occupiedState = Occupied(samples[Len(samples)])))
    /\ [][SampleStep =>
            /\ (Len(reports') = Len(reports) + 1)
                 <=> (SampledOccupancy # occupiedState /\ connectedToIoTHub)
            /\ Len(reports') \in {Len(reports), Len(reports) + 1}]_vars

C2_Witness ==
    /\ Len(reports) >= 1
    /\ droppedCount >= 1
    /\ Len(samples) > Len(reports) + droppedCount

\* C3: an occupancy change met while not connected makes no report and
\* still stores the new value; reports are only ever made by a sample whose
\* occupancy differs from the stored one, taken while connected, and carry
\* that sample's value, so a dropped value is not sent later.
C3_DroppedNotResent ==
    [][/\ (SampleStep /\ SampledOccupancy # occupiedState /\ ~connectedToIoTHub)
            => /\ reports' = reports
               /\ occupiedState' = SampledOccupancy
       /\ (reports' # reports)
            => /\ SampleStep
               /\ SampledOccupancy # occupiedState
               /\ connectedToIoTHub
               /\ reports' = Append(reports, IF SampledOccupancy THEN 1 ELSE 0)]_vars

C3_Witness ==
    /\ lastChangeDropped
    /\ quietAfterDrop
    /\ connectedToIoTHub
    /\ reports = <<>>
    /\ occupiedState

\* A timespec of the model in half seconds.
HalfSeconds(ts) == ts.tv_sec * 2 + ts.tv_nsec \div usCheckPeriodNsec

\* iothub_retry_period in half seconds.
RetryHalfSeconds == HalfSeconds(iothub_retry_period)

\* C4: a connection attempt is made only when now is past the stored
\* deadline, hence not before the time of the previous attempt plus the
\* retry period; and after any attempt, successful or not, the stored
\* deadline is the time read at that attempt plus the retry period
\* (normalised).
C4_RetryDeadline ==
    /\ pc = "attempt"
         => /\ HalfSeconds(now) > HalfSeconds(next_iothub_connect)
            /\ lastAttemptTime # NoTime
                 => HalfSeconds(now)
                      >= HalfSeconds(lastAttemptTime) + RetryHalfSeconds
    /\ lastAttemptTime # NoTime
         => /\ HalfSeconds(next_iothub_connect)
                 = HalfSeconds(lastAttemptTime) + RetryHalfSeconds
            /\ next_iothub_connect.tv_nsec \in 0..(NsecPerSec - 1)
            /\ next_iothub_connect.tv_nsec = lastAttemptTime.tv_nsec
    /\ lastAttemptTime = NoTime => iothub_connected = FALSE

C4_Witness ==
    /\ pc = "attempt"
    /\ lastAttemptTime # NoTime
    /\ ~iothub_connected
    /\ lastAttemptTime.tv_nsec # 0

C6_NetworkIndicator ==
    [][/\ (pc = "wait" /\ pc' # pc) => pc' = "netled"
       /\ (pc = "netled" /\ pc' # pc)
            => \/ /\ pc' = "connect"
                  /\ ledNetworkStatus' = (IF connectedToIoTHub THEN "Green"
                                          ELSE "Off")
               \/ pc' = "close_off"
       /\ (pc # "netled") => ledNetworkStatus' = ledNetworkStatus]_vars

C6_Witness ==
    /\ pc = "connect"
    /\ ledNetworkStatus = "Off"
    /\ ~connectedToIoTHub
    /\ clientCreated
    /\ periodicCalls = 0
    /\ iothub_connected

\* The calls of ClosePeripheralsAndHandlers, in the order of the code.
ShutdownOrder == <<"SetTrafficOff", "CloseLeds", "CloseTimerFd", "CloseEpollFd">>

\* How many of them were made when main is at a position.
ShutdownStep(p) ==
    CASE p = "close_leds" -> 1
      [] p = "close_timer" -> 2
      [] p = "close_epoll" -> 3
      [] p = "done" -> 4
      [] OTHER -> 0

\* C7: whichever way the loop was left, the shutdown calls are made in the
\* order: traffic LED Off, LEDs released, timer descriptor closed, epoll
\* descriptor closed; when the LEDs are released the Off request has been
\* made (and the LED is Off if that request succeeded); at the end no
\* descriptor is open.
C7_ShutdownOrder ==
    /\ closeLog = SubSeq(ShutdownOrder, 1, ShutdownStep(pc))
    /\ ShutdownStep(pc) >= 1
         => /\ closeLog[1] = "SetTrafficOff"
            /\ closeSetOk => ledTraffic = "Off"
    /\ ShutdownStep(pc) >= 2 => ~ledsOpen
    /\ ShutdownStep(pc) >= 3 => usTimerFd \notin openFds
    /\ pc = "done" => openFds = {}
    /\ (ShutdownStep(pc) < 3 /\ usTimerFd # FdInvalid) => usTimerFd \in openFds
    /\ (ShutdownStep(pc) < 4 /\ epollFd # FdInvalid) => epollFd \in openFds

C7_Witness ==
    /\ pc = "close_timer"
    /\ closeSetOk
    /\ trafficLog # <<>>
    /\ ~trafficSetFailed
    /\ ~terminationRequired

\* C8 as stated: after a failed SetLed of the traffic LED in the timer
\* handler no further loop iteration begins.
C8_TrafficSetFailureFatal ==
    trafficSetFailed => pc \notin {"wait"}

\* C9: after a failed CreateEpollFd or AzureIoT_Initialize the loop body is
\* never entered: no wait, no measurement, no connection attempt, no
\* periodic task; the termination flag is set and main is at the loop test
\* or in the shutdown sequence.
C9_SetupFailureAborts ==
    (EpollCreateFailed \/ AzureInitFailed)
        => /\ terminationRequired
           /\ ~loopEntered
           /\ samples = <<>>
           /\ reports = <<>>
           /\ lastAttemptTime = NoTime
           /\ periodicCalls = 0
           /\ pc \in {"loop_test", "close_off", "close_leds", "close_timer",
                      "close_epoll", "done"}

C9_Witness ==
    /\ AzureInitFailed
    /\ pc = "done"
    /\ closeLog = ShutdownOrder

\* C10 as stated: after a failed CreateTimerFdAndAddToEpoll the loop is not
\* entered.
C10_TimerFailureAborts ==
    TimerCreateFailed => (terminationRequired /\ ~loopEntered)

\* ------------------------------------------- claims: GetUltrasonicReading

SensorReturned == sensor.pc = "returned"

\* The sub-second width of the measured pulse, once both stamps are taken.
MeasuredNsec == TimerUtility_TimerSubtract(sensor.tsEnd, sensor.tsStart).tv_nsec

\* C11 as stated: a call that opened the pin both times returns 400 if and
\* only if no falling edge was observed in the polling loop.
C11_SentinelsAsStated ==
    SensorReturned /\ ~sensor.openFailed =>
        (sensor.result = Cm(TimeoutCm) <=> ~sensor.fallingEdge)

\* C11: a call that polled without observing a falling edge returns 400; a
\* call that returns 400 either observed no falling edge or measured a pulse
\* whose sub-second width is that of 400 cm; the call returns -1 if and only
\* if opening the pin as output or as input failed; and after a failed open
\* the pin is never read.
C11_Sentinels ==
    /\ SensorReturned /\ ~sensor.openFailed /\ ~sensor.fallingEdge =>
           sensor.result = Cm(TimeoutCm)
    /\ SensorReturned /\ sensor.result = Cm(TimeoutCm) =>
           /\ ~sensor.openFailed
           /\ sensor.fallingEdge => MeasuredNsec = Cm(TimeoutCm)
    /\ SensorReturned =>
           (sensor.result = Cm(UnavailableCm) <=> sensor.openFailed)
    /\ sensor.openFailed => sensor.reads = 0 /\ SensorReturned

\* A measured pulse of 400 cm returned as 400.
C11_Witness ==
    /\ SensorReturned
    /\ sensor.result = Cm(TimeoutCm)
    /\ sensor.fallingEdge

\* C17: during GetUltrasonicReading at most one handle for the sensor pin
\* is open at any time, and once the function has returned, on whichever
\* path, none is open.
C17_OneHandle ==
    /\ Cardinality(sensor.open) <= 1
    /\ SensorReturned => sensor.open = {}

\* The function returned a measurement, having held the output handle and
\* then the input handle, and holds none.
C17_Witness ==
    /\ SensorReturned
    /\ sensor.fallingEdge
    /\ sensor.result = Cm(NearThresholdCm)
    /\ sensor.open = {}

\* A step of the polling loop that read the pin.
SensorReadStep == sensor'.reads = sensor.reads + 1

\* C18: the polling loop makes at most 10,000 reads; the start stamp is taken
\* exactly once, by the read that first finds the pin high; the end stamp is
\* taken by the first read after that which finds the pin low, and that read
\* is the last one; a read that finds the pin low before any high changes
\* neither stamp.
C18_PollLoop ==
    [][/\ sensor'.reads <= PollCeiling
       /\ sensor'.reads # sensor.reads =>
              /\ SensorReadStep
              /\ sensor.pc = "poll"
              /\ sensor.endStamps = 0
       /\ sensor'.startStamps = (IF sensor'.sawHigh THEN 1 ELSE 0)
       /\ sensor'.tsStart # sensor.tsStart =>
              SensorReadStep /\ ~sensor.sawHigh /\ sensor'.lastLevel = "High"
       /\ SensorReadStep /\ sensor.sawHigh /\ sensor'.lastLevel = "Low" =>
              /\ sensor'.endStamps = 1
              /\ sensor'.pc = "close"
       /\ sensor'.tsEnd # sensor.tsEnd \/ sensor'.endStamps # sensor.endStamps =>
              SensorReadStep /\ sensor.sawHigh /\ sensor'.lastLevel = "Low"
       /\ SensorReadStep /\ ~sensor.sawHigh /\ sensor'.lastLevel = "Low" =>
              /\ sensor'.tsStart = sensor.tsStart
              /\ sensor'.tsEnd = sensor.tsEnd
              /\ sensor'.startStamps = 0
              /\ sensor'.endStamps = 0
      ]_vars

\* The loop ended on a falling edge found by its last permitted read, with
\* one stamp of each kind.
C18_Witness ==
    /\ sensor.pc = "close"
    /\ sensor.startStamps = 1
    /\ sensor.endStamps = 1
    /\ sensor.lastLevel = "Low"
    /\ sensor.reads = PollCeiling

\* ---------------------------------------------- claims: timespec helpers

\* C14: for normalized s and t, TimerUtility_TimerSubtract(s, t) has its
\* nanoseconds in [0, 1e9), having taken one second from the seconds exactly
\* when s has fewer nanoseconds than t, and adding t back gives s.
C14_SubtractNormalized ==
    /\ arith.pc \in {"subtracted", "added"} =>
           /\ arith.a.tv_nsec >= 0
           /\ arith.a.tv_nsec < NsecPerSec
           /\ IF arith.s.tv_nsec < arith.t.tv_nsec
              THEN /\ arith.a.tv_sec = arith.s.tv_sec - arith.t.tv_sec - 1
                   /\ arith.a.tv_nsec - NsecPerSec =
                          arith.s.tv_nsec - arith.t.tv_nsec
              ELSE /\ arith.a.tv_sec = arith.s.tv_sec - arith.t.tv_sec
                   /\ arith.a.tv_nsec = arith.s.tv_nsec - arith.t.tv_nsec
    /\ arith.pc = "added" => arith.sum = arith.s

\* A subtraction that borrowed, from an earlier time a later one, added back.
C14_Witness ==
    /\ arith.pc = "added"
    /\ arith.s.tv_nsec < arith.t.tv_nsec
    /\ arith.s.tv_sec < arith.t.tv_sec
    /\ arith.sum = arith.s

\* --------------------------------------------- claims: handler and loop

\* The distance of the sample a step takes and the colour it passes to
\* SetLed(&ledTraffic).
SampledDistance == samples'[Len(samples')]
SampledColor == trafficLog'[Len(trafficLog')]

\* C12: every sample makes exactly one SetLed(&ledTraffic) call and is
\* classified with strict comparisons: above 8 cm occupancy false and Green,
\* above 2 cm up to 8 cm occupancy true and Yellow, up to 2 cm occupancy true
\* and Red; so 8.00 cm is occupied, 8.01 cm is clear and 2.00 cm is Red.
C12_Classification ==
    [][SampleStep =>
        /\ Len(trafficLog') = Len(trafficLog) + 1
        /\ ledTraffic' \in {ledTraffic, SampledColor}
        /\ SampledDistance > 8 * 100 =>
               ~occupiedState' /\ SampledColor = "Green"
        /\ SampledDistance > 2 * 100 /\ SampledDistance <= 8 * 100 =>
               occupiedState' /\ SampledColor = "Yellow"
        /\ SampledDistance <= 2 * 100 =>
               occupiedState' /\ SampledColor = "Red"
        /\ SampledDistance = 8 * 100 => occupiedState'
        /\ SampledDistance = 8 * 100 + 1 => ~occupiedState'
        /\ SampledDistance = 2 * 100 => occupiedState'
      ]_vars

\* 8.00 cm was sampled as occupied and Yellow, then 8.01 cm as clear and
\* Green.
C12_Witness ==
    /\ samples = <<8 * 100, 8 * 100 + 1>>
    /\ trafficLog = <<"Yellow", "Green">>
    /\ ~occupiedState
    /\ ledTraffic = "Green"

\* C15: a handler run whose ConsumeTimerFdEvent failed sets the termination
\* flag and takes no sample, makes no report and no SetLed call, and leaves
\* the traffic LED and the stored occupancy as they were; a sample, a report
\* or a SetLed call of the handler happens only in a run that consumed the
\* event.
C15_ConsumeFirst ==
    [][/\ pc = "wait" /\ consumeFailed' =>
              /\ terminationRequired'
              /\ UNCHANGED <<samples, reports, trafficLog, droppedCount,
                             ledTraffic, occupiedState>>
       /\ SampleStep \/ reports' # reports \/ trafficLog' # trafficLog =>
              pc = "wait" /\ ~consumeFailed'
      ]_vars

\* After a sample of 8 cm the next timer event could not be consumed: the
\* flag is set, and the samples, the LED and the occupancy are as that
\* sample left them.
C15_Witness ==
    /\ consumeFailed
    /\ terminationRequired
    /\ samples = <<8 * 100>>
    /\ trafficLog = <<"Yellow">>
    /\ ledTraffic = "Yellow"
    /\ occupiedState

\* C16: the deadline of the first connection attempt is the time at which
\* main started, not that time plus the retry period: in the first iteration
\* of the loop the connection check leads to AzureIoT_SetupClient as soon as
\* the clock reads later than it did at the start.
C16_FirstAttemptImmediate ==
    [][firstIteration /\ pc = "connect" /\ pc' # pc =>
          /\ next_iothub_connect = TS(0)
          /\ HalfSeconds(now') > 0 => pc' = "attempt"
      ]_vars

\* The first iteration has called AzureIoT_SetupClient, sooner after the
\* start than one retry period.
C16_Witness ==
    /\ firstIteration
    /\ pc = "periodic"
    /\ lastAttemptTime # NoTime
    /\ HalfSeconds(lastAttemptTime) < RetryHalfSeconds

\* C19: whatever the termination flag, the wait is followed by the network
\* LED update, that by the connection check (or, only when the update
\* failed, by shutdown), the check by the attempt when the deadline has
\* passed, then the periodic tasks when the last attempt succeeded and the
\* sleep; the loop is left only by its condition or by a failed network LED
\* update.
C19_IterationCompletes ==
    [][/\ pc = "wait" /\ pc' # pc => pc' = "netled"
       /\ pc = "netled" /\ pc' # pc =>
              pc' = IF networkSetFailed' THEN "close_off" ELSE "connect"
       /\ pc = "connect" /\ pc' # pc =>
              pc' = IF TimerUtility_TimerCompareGreater(now', next_iothub_connect)
                    THEN "attempt" ELSE "periodic"
       /\ pc = "attempt" /\ pc' # pc =>
              pc' = "periodic" /\ lastAttemptTime' = now'
       /\ pc = "periodic" /\ pc' # pc =>
              /\ pc' = "sleep"
              /\ periodicCalls' =
                     periodicCalls + (IF iothub_connected THEN 1 ELSE 0)
       /\ pc = "sleep" /\ pc' # pc => pc' = "loop_test"
       /\ InLoop /\ ~InLoop' =>
              \/ pc = "loop_test" /\ terminationRequired
              \/ pc = "netled" /\ networkSetFailed'
      ]_vars

\* The handler has set the termination flag and main is at the network LED
\* update of the same iteration.
C19_Witness ==
    /\ pc = "netled"
    /\ consumeFailed
    /\ terminationRequired

\* C20: a sample of -1 (the pin could not be opened) is classified as
\* occupied: Red, occupancy true stored, and reported when that is a change
\* and the hub is connected; a sample of 400 (no echo) is classified as
\* clear: Green, occupancy false.  Neither touches the termination flag.
C20_Sentinels ==
    [][SampleStep =>
        /\ SampledDistance = UnavailableCm * 100 =>
               /\ SampledColor = "Red"
               /\ occupiedState'
               /\ reports' = IF ~occupiedState /\ connectedToIoTHub
                             THEN Append(reports, 1) ELSE reports
               /\ terminationRequired' = terminationRequired
        /\ SampledDistance = TimeoutCm * 100 =>
               /\ SampledColor = "Green"
               /\ ~occupiedState'
               /\ terminationRequired' = terminationRequired
      ]_vars

\* The first sample was -1 while connected: Red, stored and reported as
\* occupied, and the program goes on.
C20_Witness ==
    /\ samples = <<UnavailableCm * 100>>
    /\ reports = <<1>>
    /\ ledTraffic = "Red"
    /\ occupiedState
    /\ ~terminationRequired
    /\ pc = "netled"

\* C13: every write to the termination flag sets it and nothing clears it;
\* with the flag set the loop condition leads to shutdown and no iteration
\* begins; and, main running on, once the flag is set the shutdown sequence
\* runs to its end.
C13_TerminationFlag ==
    /\ [][/\ terminationRequired => terminationRequired'
          /\ terminationRequired /\ pc = "loop_test" /\ pc' # pc =>
                 pc' = "close_off"
          /\ terminationRequired /\ pc # "wait" => pc' # "wait"
         ]_vars
    /\ (terminationRequired ~> pc = "done")

\* The flag was set during an iteration, the loop condition saw it, and the
\* shutdown sequence has run, after samples were taken.
C13_Witness ==
    /\ terminationRequired
    /\ pc = "done"
    /\ loopEntered
    /\ Len(samples) = MaxSamples
    /\ closeLog = ShutdownOrder

====
